---- MODULE Spec2Model ----
(***************************************************************************)
(* Model of src/src/integration.js: the token cache kept in a caller-owned *)
(* context, the authentication exchange, and the get / post / graphql      *)
(* wrappers built on it.                                                   *)
(*                                                                         *)
(* JavaScript runs each async function from one await to the next without  *)
(* interruption, so every action below is one such run-to-await segment of *)
(* one call.  The slots in Calls hold the calls made against the context;  *)
(* under Spec one caller makes one call after another.  The HTTP client    *)
(* (got) is the environment: it answers each request with any status and   *)
(* body, or throws a transport failure.                                    *)
(*                                                                         *)
(* Spec takes the four exported functions over all their inputs.  SpecKeys *)
(* takes getToken with the property "undefined" in the cache; SpecConc and *)
(* SpecCache interleave the segments of two calls in flight at once;       *)
(* SpecUrl takes buildUrl on its own (built) and SpecOptions takes         *)
(* createNewRequestOptions and addAuthorization on their own, with the     *)
(* identity of the objects they make (heap).                               *)
(***************************************************************************)
EXTENDS Integers, Sequences, FiniteSets, TLC

VARIABLES now, context, calls, built, heap

vars == <<now, context, calls, built, heap>>

---------------------------------------------------------------------------
(* Bounds of the model.                                                    *)

\* The wrappers are called until the context's counters add up to MaxCount.
MaxCount == 2

\* The calls that may be in flight at once.
Calls == {"c1", "c2"}

---------------------------------------------------------------------------
(* Program constants.                                                      *)

StatusOK == 200
StatusCreated == 201
SkewMs == 30 * 1000
LifetimeMs == 5 * 60 * 1000

\* process.env.ETHOS_INTEGRATION_URL
ETHOS_INTEGRATION_URL == "https://env"

\* JavaScript's undefined, for an argument that was not passed.
Undefined == "<undefined>"

\* JavaScript truthiness of a string-or-undefined value.
Truthy(v) == v # Undefined /\ v # ""

\* The property key an object lookup uses for a value: undefined is
\* coerced to the string "undefined".
PropertyKey(v) == IF v = Undefined THEN "undefined" ELSE v

\* The caller's context object, as the reference the results carry.
ContextRef == "context"

---------------------------------------------------------------------------
(* Inputs.                                                                 *)

\* apiKey: not passed, empty, and an API key.
ApiKeyInputs == {Undefined, "", "k1"}
TokenInputs == {Undefined, "", "tokX"}
ResourceInputs == {Undefined, "", "students"}
\* base: defaulted, of the api family, of the auth family, and unknown.
BaseInputs == {Undefined, "admin", "graphql", "bogus"}
IdInputs == {Undefined, "123"}
\* searchParams.criteria: absent, a plain object, or an object that
\* JSON.stringify cannot serialise (a cycle).
CriteriaInputs == {Undefined, "object", "cyclic"}

NoHeaders == [h \in {} |-> ""]
NoOptions == [ethosIntegrationUrl |-> Undefined, headers |-> NoHeaders]
\* options: none, and options with a root of their own and two headers, one
\* of which bears the name of a base header.
OptionsInputs ==
    { NoOptions,
      [ethosIntegrationUrl |-> "https://override",
       headers |-> ("X-Trace" :> "1") @@ ("Accept" :> "text/csv")] }

\* What the HTTP client can answer.
StatusInputs == {200, 201, 404}
AuthBodies == {"", "tokA", "tokB"}
\* Two bodies that are JSON and one, the empty body, that is not.
DataBodies == {"{\"a\":1}", "{\"data\":2}", ""}

---------------------------------------------------------------------------
(* Errors.  The code throws plain Error objects told apart by message;     *)
(* status is the response status the message ends with (0 when none).     *)

Err(message, status) == [message |-> message, status |-> status]

\* What got throws when the request cannot be carried out.
RequestError == Err("RequestError", 0)
\* What JSON.parse throws on a body that is not JSON.
SyntaxError == Err("SyntaxError: Unexpected token in JSON", 0)
\* What JSON.stringify throws on a cyclic structure.
TypeError == Err("TypeError: Converting circular structure to JSON", 0)

---------------------------------------------------------------------------
(* Pure helpers.                                                           *)

baseOptions ==
    [headers |-> ("Accept" :> "application/json") @@ ("Cache-Control" :> "no-cache")]

integrationUrl(options) ==
    IF Truthy(options.ethosIntegrationUrl)
    THEN options.ethosIntegrationUrl
    ELSE ETHOS_INTEGRATION_URL

\* buildUrl's switch falls to default: throw.
buildUrlThrows(base) == base \notin {"admin", "api", "auth", "graphql"}

buildUrlError(base) == Err("Unknown base to buildUrl: " \o base, 0)

\* The default parameter base = 'api'.
BaseOrDefault(base) == IF base = Undefined THEN "api" ELSE base

\* What a template literal makes of a value: `${undefined}` is "undefined".
TemplateString(v) == IF v = Undefined THEN "undefined" ELSE v

\* A buildUrl that puts the resource and the id after every base.
buildUrlResourceAlways(base, id, options, resource) ==
    TemplateString(integrationUrl(options)) \o "/" \o base \o "/"
        \o TemplateString(resource) \o (IF Truthy(id) THEN "/" \o id ELSE "")

\* buildUrl for a base its switch knows.
buildUrl(base, id, options, resource) ==
    IF base \in {"admin", "api"}
    THEN TemplateString(integrationUrl(options)) \o "/" \o base \o "/"
         \o TemplateString(resource) \o (IF Truthy(id) THEN "/" \o id ELSE "")
    ELSE TemplateString(integrationUrl(options)) \o "/" \o base

\* An assignment that keeps the target's value of a property both have.
ObjectAssignKeepsTarget(target, source) == target @@ source

\* Object.assign(target, source): source's properties win.
ObjectAssign(target, source) == source @@ target

createNewRequestOptions(headers) ==
    [headers |-> ObjectAssign(baseOptions.headers, headers)]

addAuthorization(token, options) ==
    [options EXCEPT
        !.headers = ObjectAssign(@, "Authorization" :> ("Bearer " \o token))]

\* Whether JSON.parse accepts the body, and what it then yields.
IsJSON(body) == body \in {"{\"a\":1}", "{\"data\":2}"}

JSONParse(body) ==
    CASE body = "{\"a\":1}" -> [a |-> 1]
      [] body = "{\"data\":2}" -> [data |-> 2]

\* searchParams.criteria && typeof searchParams.criteria !== 'string'
CriteriaNeedsStringify(criteria) == criteria \in {"object", "cyclic"}

JSONStringifyThrows(criteria) == criteria = "cyclic"

---------------------------------------------------------------------------
(* State.                                                                  *)

\* A request handed to the HTTP client.
NoRequest == [method |-> "none", url |-> "", options |-> [headers |-> NoHeaders]]
Request(method, url, options) == [method |-> method, url |-> url, options |-> options]

\* The HTTP client's answer to a request.
Response(statusCode, body) == [statusCode |-> statusCode, body |-> body]

\* How a call ended: a value returned (the promise resolves) or an error
\* thrown (the promise rejects).
NoError == Err("", 0)
NoValue == [pending |-> TRUE]
NoResult == [kind |-> "pending", value |-> NoValue, error |-> NoError]
Return(value) == [kind |-> "return", value |-> value, error |-> NoError]
Throw(error) == [kind |-> "throw", value |-> NoValue, error |-> error]

\* context.tokensByApiKey[apiKey] when there is no such property.
NoCachedToken == [expires |-> 0, token |-> Undefined]

\* An empty slot.  op names the function called; apiKey, options and
\* resource are its arguments, kept while the code still reads them; now and
\* cachedToken are getToken's locals and tokenToUse the wrapper's; request
\* is the request in flight.  tokenFrom tells how the token was resolved ("explicit", "cache"
\* or "auth"), countBefore is the value of the wrapper's counter when it was
\* called, authPosts, dataRequests and counted count the requests the call
\* has issued and the increments it has made, authStatus / dataStatus are
\* the status the HTTP client answered (0: no answer, -1: it threw), and
\* handledAt is the time at which the answer of the authentication exchange
\* was handled.
Idle ==
    [op |-> "none", pc |-> "idle",
     apiKey |-> Undefined, resource |-> Undefined, options |-> NoOptions,
     now |-> 0, cachedToken |-> NoCachedToken,
     tokenToUse |-> Undefined, tokenFrom |-> "",
     request |-> NoRequest,
     countBefore |-> 0, authPosts |-> 0, dataRequests |-> 0, counted |-> 0,
     authStatus |-> 0, dataStatus |-> 0, handledAt |-> 0,
     result |-> NoResult]

\* context = {}: no token cache and no counters yet.  A counter that is
\* absent and a counter that is 0 are both falsy and are both modelled as 0.
EmptyContext ==
    [hasTokensByApiKey |-> FALSE,
     tokensByApiKey |-> [k \in {} |-> [expires |-> 0, token |-> ""]],
     ethosGetCount |-> 0, ethosPostCount |-> 0, ethosGraphQLCount |-> 0]

\* buildUrl's arguments and what it gave them, for buildUrl taken on its own;
\* NoBuilt while it is exercised only through the calls.
NoUrl == [kind |-> "pending", url |-> "", error |-> NoError]
ReturnUrl(url) == [kind |-> "return", url |-> url, error |-> NoError]
ThrowUrl(error) == [kind |-> "throw", url |-> "", error |-> error]

NoBuilt ==
    [base |-> Undefined, id |-> Undefined, options |-> NoOptions,
     resource |-> Undefined, out |-> NoUrl]

\* The headers objects of the module, for createNewRequestOptions taken on
\* its own.  objects holds every headers object there is, by reference
\* (its index): the first is baseOptions.headers.  returned holds, call by
\* call, the reference createNewRequestOptions returned.
BaseRef == 1
NoHeap == [objects |-> <<baseOptions.headers>>, returned |-> <<>>]

Init ==
    /\ now = 0
    /\ context = EmptyContext
    /\ calls = [c \in Calls |-> Idle]
    /\ built = NoBuilt
    /\ heap = NoHeap

---------------------------------------------------------------------------
(* getToken.                                                               *)

\* A cache check that subtracts the token lifetime instead of the skew.
CacheUsableWrongMargin(cachedToken, t) == cachedToken.expires - LifetimeMs > t

\* cachedToken.expires - (30 * 1000) > now
CacheUsable(cachedToken, t) == cachedToken.expires - SkewMs > t

\* A lifetime stamp that takes the skew off the lifetime.
ExpiresLessSkew(t) == t + LifetimeMs - SkewMs

\* const expires = now + (5 * 60 * 1000)
Expires(t) == t + LifetimeMs

\* A cache write that keeps an entry already there.
CacheStoreKeepsOld(ctx, apiKey, entry) ==
    [ctx EXCEPT !.tokensByApiKey = @ @@ (PropertyKey(apiKey) :> entry)]

\* A cache write that keeps an entry already there if it expires later.
CacheStoreKeepsLater(ctx, apiKey, entry) ==
    IF /\ PropertyKey(apiKey) \in DOMAIN ctx.tokensByApiKey
       /\ ctx.tokensByApiKey[PropertyKey(apiKey)].expires > entry.expires
    THEN ctx
    ELSE [ctx EXCEPT !.tokensByApiKey = (PropertyKey(apiKey) :> entry) @@ @]

\* context.tokensByApiKey[apiKey] = { expires, token }
CacheStore(ctx, apiKey, entry) ==
    [ctx EXCEPT !.tokensByApiKey = (PropertyKey(apiKey) :> entry) @@ @]

\* if (!context.tokensByApiKey) context.tokensByApiKey = {}
EnsureCache(ctx) == [ctx EXCEPT !.hasTokensByApiKey = TRUE]

\* const cachedToken = context.tokensByApiKey[apiKey]
CachedToken(ctx, apiKey) ==
    IF PropertyKey(apiKey) \in DOMAIN ctx.tokensByApiKey
    THEN ctx.tokensByApiKey[PropertyKey(apiKey)]
    ELSE NoCachedToken

\* The request of the authentication exchange.
AuthRequest(apiKey, options) ==
    Request("POST",
            buildUrl("auth", Undefined, options, Undefined),
            addAuthorization(apiKey, createNewRequestOptions(NoHeaders)))

\* An apiKey check that lets the empty string through.
ApiKeyMissingUndefinedOnly(apiKey) == apiKey = Undefined

\* if (!apiKey) throw ...
ApiKeyMissing(apiKey) == ~Truthy(apiKey)

\* An explicit-token return placed after the lazy creation of the cache.
ExplicitTokenAfterInit(ctx, token) ==
    [context |-> [ctx EXCEPT !.hasTokensByApiKey = TRUE], outcome |-> "return",
     token |-> token, error |-> NoError, request |-> NoRequest]

\* if (token) return { context, token }
ExplicitToken(ctx, token) ==
    [context |-> ctx, outcome |-> "return", token |-> token,
     error |-> NoError, request |-> NoRequest]

\* getToken from its entry to its first await or its return: outcome is
\* "return" (with token), "throw" (with error) or "await" (request issued).
getTokenStart(ctx, apiKey, options, token, t) ==
    IF Truthy(token)
    THEN ExplicitToken(ctx, token)
    ELSE LET ctx1 == EnsureCache(ctx)
             cachedToken == CachedToken(ctx1, apiKey)
         IN  IF cachedToken # NoCachedToken /\ CacheUsable(cachedToken, t)
             THEN [context |-> ctx1, outcome |-> "return",
                   token |-> cachedToken.token,
                   error |-> NoError, request |-> NoRequest]
             ELSE IF ApiKeyMissing(apiKey)
             THEN [context |-> ctx1, outcome |-> "throw", token |-> Undefined,
                   error |-> Err("getToken missing apiKey", 0),
                   request |-> NoRequest]
             ELSE [context |-> ctx1, outcome |-> "await", token |-> Undefined,
                   error |-> NoError, request |-> AuthRequest(apiKey, options)]

\* A status check that also takes 201 Created for success, as post's does.
AuthSucceededOrCreated(statusCode) ==
    statusCode = StatusOK \/ statusCode = StatusCreated

\* response.statusCode === StatusCodes.OK, in getToken
AuthSucceeded(statusCode) == statusCode = StatusOK

\* getToken from the answer of the authentication exchange to its end; t0
\* is the value getToken read from the clock before the exchange.
getTokenResponse(ctx, apiKey, t0, response) ==
    IF AuthSucceeded(response.statusCode)
    THEN [context |-> CacheStore(ctx, apiKey,
                        [expires |-> Expires(t0), token |-> response.body]),
          outcome |-> "return", token |-> response.body, error |-> NoError]
    ELSE [context |-> ctx, outcome |-> "throw", token |-> Undefined,
          error |-> Err("Integration Auth failed. response status: ",
                        response.statusCode)]

---------------------------------------------------------------------------
(* The wrappers: get, post, graphql.                                       *)

\* A resource check that lets the empty string through.
ResourceMissingUndefinedOnly(resource) == resource = Undefined

\* if (!resource) throw ...
ResourceMissing(resource) == ~Truthy(resource)

MissingResourceError(op) == Err(op \o ": missing resource name", 0)

\* A counter that is set once and never incremented: count || 1.
IncCountOnlySets(n) == IF n # 0 THEN n ELSE 1

\* context.ethosGetCount = context.ethosGetCount ? context.ethosGetCount + 1 : 1
IncCount(n) == IF n # 0 THEN n + 1 ELSE 1

\* Every wrapper counting on ethosGetCount.
CountUpAllGet(ctx, op) == [ctx EXCEPT !.ethosGetCount = IncCount(@)]

CountUp(ctx, op) ==
    CASE op = "get" -> [ctx EXCEPT !.ethosGetCount = IncCount(@)]
      [] op = "post" -> [ctx EXCEPT !.ethosPostCount = IncCount(@)]
      [] op = "graphql" -> [ctx EXCEPT !.ethosGraphQLCount = IncCount(@)]

\* The headers the wrapper hands to createNewRequestOptions: post adds a
\* Content-Type to the caller's.
WrapperHeaders(op, options) ==
    IF op = "post"
    THEN ObjectAssign(ObjectAssign(NoHeaders, options.headers),
                      "Content-Type" :> "application/json")
    ELSE options.headers

WrapperMethod(op) == IF op = "get" THEN "GET" ELSE "POST"

NoTokenError(op) ==
    Err((IF op = "graphql" THEN "grapql" ELSE op) \o " failed to get a token", 0)

\* A wrapper from the resolution of its token to its data request: outcome
\* is "throw" (with error, nothing issued, nothing counted) or "await" (the
\* counter incremented and request issued).  graphql takes no base, id or
\* criteria: its base is 'graphql'.
WrapperPrepare(ctx, op, tokenToUse, options, resource, base, id, criteria) ==
    IF op # "graphql" /\ CriteriaNeedsStringify(criteria) /\ JSONStringifyThrows(criteria)
    THEN [context |-> ctx, outcome |-> "throw", error |-> TypeError,
          request |-> NoRequest]
    ELSE IF ~Truthy(tokenToUse)
    THEN [context |-> ctx, outcome |-> "throw", error |-> NoTokenError(op),
          request |-> NoRequest]
    ELSE LET b == IF op = "graphql" THEN "graphql" ELSE BaseOrDefault(base)
             requestOptions ==
                 addAuthorization(tokenToUse,
                     createNewRequestOptions(WrapperHeaders(op, options)))
         IN  IF buildUrlThrows(b)
             THEN [context |-> ctx, outcome |-> "throw", error |-> buildUrlError(b),
                   request |-> NoRequest]
             ELSE [context |-> CountUp(ctx, op), outcome |-> "await",
                   error |-> NoError,
                   request |-> Request(WrapperMethod(op),
                                       buildUrl(b, id, options, resource),
                                       requestOptions)]

\* response.statusCode === StatusCodes.OK, in get
GetSucceeded(statusCode) == statusCode = StatusOK

\* A post that takes only 200 for success, as get does.
PostSucceededOnlyOK(statusCode) == statusCode = StatusOK

\* response.statusCode === StatusCodes.OK || ... === StatusCodes.CREATED
PostSucceeded(statusCode) == statusCode = StatusOK \/ statusCode = StatusCreated

\* response.statusCode === StatusCodes.OK, in graphql
GraphqlSucceeded(statusCode) == statusCode = StatusOK

ErrorResult(error) == Return([context |-> ContextRef, error |-> error])

DataResult(body) ==
    IF IsJSON(body)
    THEN Return([context |-> ContextRef, data |-> JSONParse(body)])
    ELSE ErrorResult(SyntaxError)

\* get without its catch: the failure is thrown, as in graphql.
GetResultUncaught(response) ==
    IF response.statusCode = StatusOK
    THEN IF IsJSON(response.body)
         THEN Return([context |-> ContextRef, data |-> JSONParse(response.body)])
         ELSE Throw(SyntaxError)
    ELSE Throw(Err("Integration get failed. response status: ",
                   response.statusCode))

\* get's try block, from the answer to its request on.
GetResult(response) ==
    IF GetSucceeded(response.statusCode)
    THEN DataResult(response.body)
    ELSE ErrorResult(Err("Integration get failed. response status: ",
                         response.statusCode))

\* post's try block, from the answer to its request on.
PostResult(response) ==
    IF PostSucceeded(response.statusCode)
    THEN DataResult(response.body)
    ELSE ErrorResult(Err("Integration post failed. response status: ",
                         response.statusCode))

\* { context, ...JSON.parse(response.body) }: the body's fields come last.
Spread(parsed) == parsed @@ [context |-> ContextRef]

\* graphql with the try/catch of get and post around its request.
GraphqlResultCaught(response) ==
    IF response.statusCode = StatusOK /\ IsJSON(response.body)
    THEN Return(JSONParse(response.body) @@ [context |-> ContextRef])
    ELSE Return([context |-> ContextRef,
                 error |-> Err("Integration GraphQL failed. response status: ",
                               response.statusCode)])

\* graphql, from the answer to its request on: nothing is caught.
GraphqlResult(response) ==
    IF GraphqlSucceeded(response.statusCode)
    THEN IF IsJSON(response.body)
         THEN Return(Spread(JSONParse(response.body)))
         ELSE Throw(SyntaxError)
    ELSE Throw(Err("Integration GraphQL failed. response status: ",
                   response.statusCode))

\* No wrapper catches what got throws.
TransportResultUncaught(op) == Throw(RequestError)

\* get and post catch what got throws; graphql does not.
TransportResult(op) ==
    IF op = "graphql" THEN Throw(RequestError) ELSE ErrorResult(RequestError)

---------------------------------------------------------------------------
(* Actions.                                                                *)

TokenResult(token) == Return([context |-> ContextRef, token |-> token])

\* The wrapper calls that may still increment a counter.
Uncounted ==
    Cardinality({d \in Calls : calls[d].op \in {"get", "post", "graphql"}
                                /\ calls[d].pc \in {"auth", "resolved"}})

Counted(ctx) == ctx.ethosGetCount + ctx.ethosPostCount + ctx.ethosGraphQLCount

\* The counter of wrapper op (getToken has none).
CounterOf(ctx, op) ==
    CASE op = "get" -> ctx.ethosGetCount
      [] op = "post" -> ctx.ethosPostCount
      [] op = "graphql" -> ctx.ethosGraphQLCount
      [] OTHER -> 0

\* A call that has ended.
Done(call, result) ==
    [Idle EXCEPT !.op = call.op, !.pc = "done", !.result = result,
                 !.now = call.now, !.cachedToken = call.cachedToken,
                 !.tokenFrom = call.tokenFrom, !.countBefore = call.countBefore,
                 !.authPosts = call.authPosts, !.authStatus = call.authStatus,
                 !.handledAt = call.handledAt,
                 !.dataRequests = call.dataRequests, !.counted = call.counted]

\* How getTokenStart resolved the token, if it did.
TokenFrom(token, r) ==
    CASE Truthy(token) -> "explicit"
      [] r.outcome = "return" -> "cache"
      [] r.outcome = "await" -> "auth"
      [] OTHER -> ""

\* The call op(apiKey, options, resource, token) once getToken has run to
\* its first await or its end with outcome r.
Started(op, apiKey, options, resource, token, r) ==
    LET call == [Idle EXCEPT
                    !.op = op, !.tokenFrom = TokenFrom(token, r),
                    !.countBefore = CounterOf(context, op),
                    !.now = IF Truthy(token) THEN 0 ELSE now,
                    !.cachedToken = IF Truthy(token) THEN NoCachedToken
                                    ELSE CachedToken(context, apiKey)]
    IN  CASE r.outcome = "throw" -> Done(call, Throw(r.error))
          [] r.outcome = "await" ->
                [call EXCEPT !.pc = "auth", !.apiKey = apiKey,
                             !.options = options, !.resource = resource,
                             !.request = r.request, !.authPosts = 1]
          [] r.outcome = "return" /\ op = "getToken" ->
                Done(call, TokenResult(r.token))
          [] OTHER ->
                [call EXCEPT !.pc = "resolved", !.tokenToUse = r.token,
                             !.options = options, !.resource = resource]

\* A caller invokes getToken directly.
CallGetToken(c, apiKey, options, token) ==
    /\ calls[c].pc = "idle"
    /\ LET r == getTokenStart(context, apiKey, options, token, now)
       IN  /\ context' = r.context
           /\ calls' = [calls EXCEPT ![c] =
                 Started("getToken", apiKey, NoOptions, Undefined, token, r)]
    /\ UNCHANGED <<now, built, heap>>

\* A caller invokes get, post or graphql: the resource check (get and post
\* only), then getToken up to its first await.
CallWrapper(c, op, apiKey, options, token, resource) ==
    /\ calls[c].pc = "idle"
    /\ Counted(context) + Uncounted < MaxCount
    /\ IF op # "graphql" /\ ResourceMissing(resource)
       THEN /\ calls' = [calls EXCEPT ![c] =
                  Done([Idle EXCEPT !.op = op,
                                    !.countBefore = CounterOf(context, op)],
                       Throw(MissingResourceError(op)))]
            /\ UNCHANGED context
       ELSE LET r == getTokenStart(context, apiKey, options, token, now)
            IN  /\ context' = r.context
                /\ calls' = [calls EXCEPT ![c] =
                      Started(op, apiKey, options, resource, token, r)]
    /\ UNCHANGED <<now, built, heap>>

CallGet(c, apiKey, options, token, resource) ==
    /\ calls[c].op = "none"
    /\ CallWrapper(c, "get", apiKey, options, token, resource)

CallPost(c, apiKey, options, token, resource) ==
    /\ calls[c].op = "none"
    /\ CallWrapper(c, "post", apiKey, options, token, resource)

CallGraphql(c, apiKey, options, token) ==
    /\ calls[c].op = "none"
    /\ CallWrapper(c, "graphql", apiKey, options, token, Undefined)

\* The authentication exchange is answered: getToken runs to its end, and
\* a wrapper that awaits it gets its token or is rejected.
AuthResponse(c, statusCode, body) ==
    /\ calls[c].pc = "auth"
    /\ LET r == getTokenResponse(context, calls[c].apiKey, calls[c].now,
                                 Response(statusCode, body))
           call == [calls[c] EXCEPT !.authStatus = statusCode,
                                    !.handledAt = now]
       IN  /\ context' = r.context
           /\ calls' = [calls EXCEPT ![c] =
                 CASE r.outcome = "throw" -> Done(call, Throw(r.error))
                   [] call.op = "getToken" -> Done(call, TokenResult(r.token))
                   [] OTHER ->
                        [call EXCEPT !.pc = "resolved", !.apiKey = Undefined,
                                     !.request = NoRequest,
                                     !.tokenToUse = r.token]]
    /\ UNCHANGED <<now, built, heap>>

\* The authentication exchange fails in transport: got throws, getToken
\* catches nothing, and neither does a wrapper around its await.
AuthFailure(c) ==
    /\ calls[c].pc = "auth"
    /\ calls' = [calls EXCEPT ![c] =
          Done([calls[c] EXCEPT !.authStatus = -1], Throw(RequestError))]
    /\ UNCHANGED <<now, context, built, heap>>

\* A wrapper resumes with its token and issues its data request, or throws.
Continue(c, base, id, criteria) ==
    /\ calls[c].pc = "resolved"
    /\ LET r == WrapperPrepare(context, calls[c].op, calls[c].tokenToUse,
                               calls[c].options, calls[c].resource,
                               base, id, criteria)
       IN  /\ context' = r.context
           /\ calls' = [calls EXCEPT ![c] =
                 IF r.outcome = "throw"
                 THEN Done(calls[c], Throw(r.error))
                 ELSE [calls[c] EXCEPT !.pc = "data", !.request = r.request,
                                       !.tokenToUse = Undefined,
                                       !.options = NoOptions,
                                       !.resource = Undefined,
                                       !.dataRequests = 1, !.counted = 1]]
    /\ UNCHANGED <<now, built, heap>>

GetContinue(c, base, id, criteria) ==
    /\ calls[c].op = "get"
    /\ Continue(c, base, id, criteria)

PostContinue(c, base, id, criteria) ==
    /\ calls[c].op = "post"
    /\ Continue(c, base, id, criteria)

GraphqlContinue(c) ==
    /\ calls[c].op = "graphql"
    /\ Continue(c, Undefined, Undefined, Undefined)

WrapperResult(op, response) ==
    CASE op = "get" -> GetResult(response)
      [] op = "post" -> PostResult(response)
      [] op = "graphql" -> GraphqlResult(response)

\* The data request is answered.
DataResponse(c, statusCode, body) ==
    /\ calls[c].pc = "data"
    /\ calls' = [calls EXCEPT ![c] =
          [Done(calls[c], WrapperResult(calls[c].op, Response(statusCode, body)))
             EXCEPT !.dataStatus = statusCode]]
    /\ UNCHANGED <<now, context, built, heap>>

\* The data request fails in transport: got throws.
DataFailure(c) ==
    /\ calls[c].pc = "data"
    /\ calls' = [calls EXCEPT ![c] =
          [Done(calls[c], TransportResult(calls[c].op)) EXCEPT !.dataStatus = -1]]
    /\ UNCHANGED <<now, context, built, heap>>

\* The caller has taken the call's outcome; the slot is free again.
Collect(c) ==
    /\ calls[c].pc = "done"
    /\ calls' = [calls EXCEPT ![c] = Idle]
    /\ UNCHANGED <<now, context, built, heap>>

\* Time passes, by any amount: the clock is observed at the instants that
\* matter to a token obtained at 0, which is usable until it has 30 s left.
ClockValues == {0, SkewMs, LifetimeMs - SkewMs}

Tick(t) ==
    /\ t > now
    /\ now' = t
    /\ UNCHANGED <<context, calls, built, heap>>

\* One caller that awaits each call before it makes the next.
Active == {"c1"}

Next ==
    \/ \E c \in Active, apiKey \in ApiKeyInputs, options \in OptionsInputs,
          token \in TokenInputs :
          \/ CallGetToken(c, apiKey, options, token)
          \/ CallGraphql(c, apiKey, options, token)
          \/ \E resource \in ResourceInputs :
                \/ CallGet(c, apiKey, options, token, resource)
                \/ CallPost(c, apiKey, options, token, resource)
    \/ \E c \in Active :
          \/ \E statusCode \in StatusInputs, body \in AuthBodies :
                AuthResponse(c, statusCode, body)
          \/ AuthFailure(c)
          \/ \E base \in BaseInputs, id \in IdInputs, criteria \in CriteriaInputs :
                \/ GetContinue(c, base, id, criteria)
                \/ PostContinue(c, base, id, criteria)
          \/ GraphqlContinue(c)
          \/ \E statusCode \in StatusInputs, body \in DataBodies :
                DataResponse(c, statusCode, body)
          \/ DataFailure(c)
          \/ Collect(c)
    \/ \E t \in ClockValues : Tick(t)

Spec == Init /\ [][Next]_vars

---------------------------------------------------------------------------
(* getToken with the API keys that are absent, empty, or spelled           *)
(* "undefined": a lookup with an absent apiKey reads the property named    *)
(* "undefined", which a caller of that very key has written.               *)

KeyInputs == {Undefined, "", "undefined"}

NextKeys ==
    \/ \E c \in Active, apiKey \in KeyInputs, token \in {Undefined, ""} :
          CallGetToken(c, apiKey, NoOptions, token)
    \/ \E c \in Active :
          \/ \E statusCode \in {200, 404}, body \in AuthBodies :
                AuthResponse(c, statusCode, body)
          \/ Collect(c)
    \/ \E t \in ClockValues : Tick(t)

SpecKeys == Init /\ [][NextKeys]_vars

---------------------------------------------------------------------------
(* Concurrent callers: a call is made while another is awaiting its        *)
(* authentication exchange or its data request.  The segments of the two   *)
(* calls interleave in any order; each segment runs to its await.          *)

ConcKeys == {"k1"}

NextConc ==
    \/ \E c \in Calls, apiKey \in ConcKeys :
          \/ CallGetToken(c, apiKey, NoOptions, Undefined)
          \/ \E token \in {Undefined, "tokX"} :
                CallGet(c, apiKey, NoOptions, token, "students")
    \/ \E c \in Calls :
          \/ \E statusCode \in {200, 404}, body \in {"tokA", "tokB"} :
                AuthResponse(c, statusCode, body)
          \/ GetContinue(c, Undefined, Undefined, Undefined)
          \/ \E statusCode \in {200, 404} :
                DataResponse(c, statusCode, "{\"a\":1}")
          \/ Collect(c)
    \/ \E t \in ClockValues : Tick(t)

SpecConc == Init /\ [][NextConc]_vars

---------------------------------------------------------------------------
(* Concurrent callers with two API keys: what happens to the token cache.  *)
(* The wrappers reach the cache only through getToken.                     *)

CacheKeys == {"k1", "k2"}

NextCache ==
    \/ \E c \in Calls, apiKey \in CacheKeys :
          CallGetToken(c, apiKey, NoOptions, Undefined)
    \/ \E c \in Calls :
          \/ \E statusCode \in StatusInputs, body \in {"tokA", "tokB"} :
                AuthResponse(c, statusCode, body)
          \/ AuthFailure(c)
          \/ Collect(c)
    \/ \E t \in ClockValues : Tick(t)

SpecCache == Init /\ [][NextCache]_vars

---------------------------------------------------------------------------
(* buildUrl on its own: any arguments, then the call.                      *)

UrlBaseInputs == {Undefined, "", "api", "admin", "auth", "graphql", "bogus"}
UrlIdInputs == {Undefined, "", "123"}
UrlResourceInputs == {Undefined, "students", "persons"}
\* options: none, with a root of its own, with an empty root.
UrlOptionsInputs ==
    { NoOptions,
      [ethosIntegrationUrl |-> "https://override", headers |-> NoHeaders],
      [ethosIntegrationUrl |-> "", headers |-> NoHeaders] }

InitUrl ==
    /\ now = 0
    /\ context = EmptyContext
    /\ calls = [c \in Calls |-> Idle]
    /\ heap = NoHeap
    /\ built \in [base : UrlBaseInputs, id : UrlIdInputs,
                   options : UrlOptionsInputs, resource : UrlResourceInputs,
                   out : {NoUrl}]

\* buildUrl({base, id, options, resource}), base defaulted to 'api'.
BuildUrl ==
    /\ built.out = NoUrl
    /\ LET base == BaseOrDefault(built.base)
       IN  built' = [built EXCEPT !.out =
              IF buildUrlThrows(base)
              THEN ThrowUrl(buildUrlError(base))
              ELSE ReturnUrl(buildUrl(base, built.id, built.options,
                                      built.resource))]
    /\ UNCHANGED <<now, context, calls, heap>>

NextUrl == BuildUrl

SpecUrl == InitUrl /\ [][NextUrl]_vars

---------------------------------------------------------------------------
(* createNewRequestOptions and addAuthorization on their own, with the     *)
(* identity of the objects they make and change.                           *)

\* The request options objects made before the model stops making more.
MaxOptions == 2

\* The headers a caller passes: none, one of its own, one of the base's.
HeaderInputs == {NoHeaders, "X-Trace" :> "1", "Accept" :> "text/csv"}

\* A factory that hands out baseOptions itself instead of a copy.
NewRequestOptionsShared(h, headers) ==
    [objects |-> [h.objects EXCEPT ![BaseRef] = ObjectAssign(@, headers)],
     returned |-> Append(h.returned, BaseRef)]

\* createNewRequestOptions: JSON.parse(stringifiedBaseOptions) makes a new
\* object out of the text taken from baseOptions when the module loaded.
NewRequestOptions(h, headers) ==
    [objects |-> Append(h.objects, createNewRequestOptions(headers).headers),
     returned |-> Append(h.returned, Len(h.objects) + 1)]

CreateNewRequestOptions(headers) ==
    /\ Len(heap.returned) < MaxOptions
    /\ heap' = NewRequestOptions(heap, headers)
    /\ UNCHANGED <<now, context, calls, built>>

\* addAuthorization(token, options) on the options returned by call i.
AddAuthorization(i, token) ==
    /\ i \in 1..Len(heap.returned)
    /\ heap' = [heap EXCEPT !.objects[heap.returned[i]] =
                    addAuthorization(token, [headers |-> @]).headers]
    /\ UNCHANGED <<now, context, calls, built>>

\* Whoever holds the options returned by call i sets one of their headers.
SetHeader(i, name, value) ==
    /\ i \in 1..Len(heap.returned)
    /\ heap' = [heap EXCEPT !.objects[heap.returned[i]] =
                    ObjectAssign(@, name :> value)]
    /\ UNCHANGED <<now, context, calls, built>>

NextOptions ==
    \/ \E headers \in HeaderInputs : CreateNewRequestOptions(headers)
    \/ \E i \in 1..MaxOptions :
          \/ \E token \in {"k1", "tokX"} : AddAuthorization(i, token)
          \/ \E name \in {"Accept", "Cache-Control"} :
                SetHeader(i, name, "changed")

SpecOptions == Init /\ [][NextOptions]_vars

---------------------------------------------------------------------------
(* Properties.                                                             *)

\* The context holds an entry for API key k that is usable at time t: it has
\* more than 30 s left.
HoldsUsable(ctx, k, t) ==
    /\ ctx.hasTokensByApiKey
    /\ k \in DOMAIN ctx.tokensByApiKey
    /\ ctx.tokensByApiKey[k].expires - 30000 > t

\* C1. Token cache hit: when the context holds an entry for API key k with
\* expires - 30000 > now, getToken called with apiKey k and no explicit
\* token returns that entry's token, issues no auth POST and leaves the
\* context, the entry included, unchanged.
C1_TokenCacheHit ==
    [][\A c \in Calls, k \in ApiKeyInputs, o \in OptionsInputs, t \in TokenInputs :
          (/\ calls[c].pc = "idle" /\ calls'[c].op = "getToken"
           /\ ~Truthy(t) /\ HoldsUsable(context, k, now)
           /\ CallGetToken(c, k, o, t))
          => /\ calls'[c].pc = "done"
             /\ calls'[c].result = TokenResult(context.tokensByApiKey[k].token)
             /\ calls'[c].authPosts = 0
             /\ calls'[c].request = NoRequest
             /\ context' = context]_vars

\* A getToken call has returned the token of a usable entry from the cache.
C1_Witness ==
    \E c \in Calls :
        /\ calls[c].op = "getToken" /\ calls[c].pc = "done"
        /\ calls[c].tokenFrom = "cache" /\ calls[c].authPosts = 0
        /\ HoldsUsable(context, "k1", now)
        /\ calls[c].result = TokenResult(context.tokensByApiKey["k1"].token)

\* C2. Token cache miss or expiry: when the context has no entry for API key
\* k, or one with expires - 30000 <= now, getToken called with apiKey k and
\* no explicit token issues one auth POST; when that POST answers 200 with
\* body b, getToken returns token b, has issued exactly one auth POST, and
\* the context holds an entry with token b for k.
C2_TokenCacheMiss ==
    [][/\ \A c \in Calls, k \in ApiKeyInputs, o \in OptionsInputs, t \in TokenInputs :
            (/\ calls[c].pc = "idle" /\ calls'[c].op = "getToken"
             /\ ~Truthy(t) /\ Truthy(k) /\ ~HoldsUsable(context, k, now)
             /\ CallGetToken(c, k, o, t))
            => /\ calls'[c].pc = "auth"
               /\ calls'[c].authPosts = 1
               /\ calls'[c].request.method = "POST"
               /\ calls'[c].request.url = integrationUrl(o) \o "/auth"
               /\ calls'[c].request.options.headers["Authorization"] = "Bearer " \o k
       /\ \A c \in Calls, b \in AuthBodies :
            (/\ calls[c].op = "getToken" /\ calls[c].pc = "auth"
             /\ AuthResponse(c, 200, b))
            => /\ calls'[c].pc = "done"
               /\ calls'[c].result = TokenResult(b)
               /\ calls'[c].authPosts = 1
               /\ calls[c].apiKey \in DOMAIN context'.tokensByApiKey
               /\ context'.tokensByApiKey[calls[c].apiKey].token = b]_vars

\* A getToken call that found an entry with exactly 30 s left has exchanged
\* the key for another token, returned it and stored it over the entry.
C2_Witness ==
    \E c \in Calls :
        /\ calls[c].op = "getToken" /\ calls[c].pc = "done"
        /\ calls[c].tokenFrom = "auth" /\ calls[c].authPosts = 1
        /\ calls[c].cachedToken.token = "tokA"
        /\ calls[c].cachedToken.expires - 30000 = calls[c].now
        /\ calls[c].result = TokenResult("tokB")
        /\ "k1" \in DOMAIN context.tokensByApiKey
        /\ context.tokensByApiKey["k1"].token = "tokB"

\* C3. Explicit token bypass: a call of getToken, get, post or graphql with
\* a non-empty explicit token t, in any context and with any apiKey, issues
\* no auth POST, uses exactly t (getToken returns it, a wrapper sends
\* Authorization: Bearer t), and never creates or changes the token cache.
C3_ExplicitTokenBypass ==
    [][/\ \A c \in Calls, k \in ApiKeyInputs, o \in OptionsInputs,
             t \in TokenInputs, r \in ResourceInputs :
            (/\ calls[c].pc = "idle" /\ calls'[c].pc # "idle"
             /\ Truthy(t)
             /\ \/ CallGetToken(c, k, o, t) \/ CallGraphql(c, k, o, t)
                \/ CallGet(c, k, o, t, r) \/ CallPost(c, k, o, t, r))
            => /\ context' = context
               /\ calls'[c].authPosts = 0
               /\ calls'[c].pc \in {"resolved", "done"}
               /\ calls'[c].op = "getToken" => calls'[c].result = TokenResult(t)
               /\ calls'[c].pc = "resolved" =>
                     /\ calls'[c].tokenToUse = t
                     /\ calls'[c].tokenFrom = "explicit"
       /\ \A c \in Calls :
            (calls[c].tokenFrom = "explicit" /\ calls'[c] # calls[c])
            => /\ context'.hasTokensByApiKey = context.hasTokensByApiKey
               /\ context'.tokensByApiKey = context.tokensByApiKey
               /\ calls'[c].authPosts = 0
               /\ calls'[c].pc # "auth"
               /\ calls'[c].pc = "data" =>
                     calls'[c].request.options.headers["Authorization"]
                        = "Bearer " \o calls[c].tokenToUse]_vars

\* A wrapper called with an explicit token on a fresh context has sent its
\* data request with that token, and the context still has no token cache.
C3_Witness ==
    \E c \in Calls :
        /\ calls[c].pc = "data" /\ calls[c].tokenFrom = "explicit"
        /\ calls[c].request.options.headers["Authorization"] = "Bearer tokX"
        /\ calls[c].authPosts = 0
        /\ ~context.hasTokensByApiKey

\* The shapes of a wrapper's result.
IsErrorResult(result) ==
    result.kind = "return" /\ DOMAIN result.value = {"context", "error"}

IsDataResult(result) ==
    result.kind = "return" /\ DOMAIN result.value = {"context", "data"}

\* The spec's names for the errors the code throws.
AuthenticationError(status) == Err("Integration Auth failed. response status: ", status)
IntegrationError(status) == Err("Integration GraphQL failed. response status: ", status)
InvalidArgumentResource(op) == Err(op \o ": missing resource name", 0)
InvalidArgumentApiKey == Err("getToken missing apiKey", 0)
ConfigurationError(base) == Err("Unknown base to buildUrl: " \o base, 0)

\* C4. Auth failure always propagates: when the auth exchange answers with a
\* status other than 200, the call (getToken, get, post or graphql) ends by
\* throwing AuthenticationError with that status: no error-result, no
\* retry (one auth POST), no data request, no counter increment, and the
\* context as it was; starting the exchange changed no cache entry either.
C4_AuthFailurePropagates ==
    [][/\ \A c \in Calls, s \in StatusInputs, b \in AuthBodies :
            (calls[c].pc = "auth" /\ s # 200 /\ AuthResponse(c, s, b))
            => /\ calls'[c].pc = "done"
               /\ calls'[c].result = Throw(AuthenticationError(s))
               /\ calls'[c].authPosts = 1
               /\ calls'[c].dataRequests = 0
               /\ calls'[c].counted = 0
               /\ context' = context
       /\ \A c \in Calls :
            calls'[c].pc = "auth" =>
                context'.tokensByApiKey = context.tokensByApiKey]_vars

\* A get whose authentication exchange answered 404 has thrown, although an
\* (expired) entry for its key is in the cache.
C4_Witness ==
    \E c \in Calls :
        /\ calls[c].op = "get" /\ calls[c].pc = "done"
        /\ calls[c].authStatus = 404
        /\ calls[c].result = Throw(AuthenticationError(404))
        /\ calls[c].cachedToken # NoCachedToken
        /\ context.tokensByApiKey["k1"] = calls[c].cachedToken

\* C5. get success: when the token is resolved and the GET answers 200 with
\* a JSON body, get returns {context, data} with data the parsed body, and
\* context.ethosGetCount is one more than when get was called.
C5_GetSuccess ==
    [][\A c \in Calls, b \in DataBodies :
          (/\ calls[c].op = "get" /\ calls[c].pc = "data"
           /\ IsJSON(b) /\ DataResponse(c, 200, b))
          => /\ calls'[c].result =
                   Return([context |-> ContextRef, data |-> JSONParse(b)])
             /\ b = "{\"a\":1}" => calls'[c].result.value.data = [a |-> 1]
             /\ context'.ethosGetCount = calls[c].countBefore + 1]_vars

\* A second successful get on the context: the counter went from 1 to 2.
C5_Witness ==
    \E c \in Calls :
        /\ calls[c].op = "get" /\ calls[c].pc = "done"
        /\ calls[c].dataStatus = 200
        /\ calls[c].result = Return([context |-> ContextRef, data |-> [a |-> 1]])
        /\ calls[c].countBefore = 1
        /\ context.ethosGetCount = 2

\* C6. get failure containment: when the token is resolved and the GET
\* answers a status other than 200, or the HTTP client throws, get returns
\* {context, error} and leaves the context, its token cache included, as it
\* was; a get with an API key whose entry is usable then takes the token
\* from the cache and issues no auth POST.
C6_GetFailureContained ==
    [][/\ \A c \in Calls, s \in StatusInputs, b \in DataBodies :
            (/\ calls[c].op = "get" /\ calls[c].pc = "data"
             /\ s # 200 /\ DataResponse(c, s, b))
            => /\ calls'[c].result =
                     ErrorResult(Err("Integration get failed. response status: ", s))
               /\ context' = context
       /\ \A c \in Calls :
            (calls[c].op = "get" /\ DataFailure(c))
            => /\ calls'[c].result = ErrorResult(RequestError)
               /\ context' = context
       /\ \A c \in Calls, k \in ApiKeyInputs, o \in OptionsInputs,
             t \in TokenInputs, r \in ResourceInputs :
            (/\ calls[c].pc = "idle" /\ calls'[c].op = "get"
             /\ ~Truthy(t) /\ Truthy(r) /\ HoldsUsable(context, k, now)
             /\ CallGet(c, k, o, t, r))
            => /\ calls'[c].pc = "resolved"
               /\ calls'[c].tokenToUse = context.tokensByApiKey[k].token
               /\ calls'[c].authPosts = 0
               /\ context' = context]_vars

\* A get that obtained its token by an exchange got 404 for its data and
\* returned an error-result; the token it obtained is still usable.
C6_Witness ==
    \E c \in Calls :
        /\ calls[c].op = "get" /\ calls[c].pc = "done"
        /\ calls[c].tokenFrom = "auth" /\ calls[c].dataStatus = 404
        /\ IsErrorResult(calls[c].result)
        /\ calls[c].result.value.error.status = 404
        /\ HoldsUsable(context, "k1", now)

C8_PostSuccessSet ==
    [][/\ \A c \in Calls, s \in StatusInputs, b \in DataBodies :
            (/\ calls[c].op = "post" /\ calls[c].pc = "data"
             /\ DataResponse(c, s, b))
            => /\ (s \in {200, 201} /\ IsJSON(b)) =>
                     calls'[c].result =
                        Return([context |-> ContextRef, data |-> JSONParse(b)])
               /\ (s \in {200, 201} /\ ~IsJSON(b)) =>
                     calls'[c].result = ErrorResult(SyntaxError)
               /\ s \notin {200, 201} =>
                     calls'[c].result =
                        ErrorResult(Err("Integration post failed. response status: ", s))
       /\ \A c \in Calls :
            (calls[c].op = "post" /\ DataFailure(c))
            => calls'[c].result = ErrorResult(RequestError)
       /\ \A c \in Calls, s \in StatusInputs, b \in DataBodies :
            (/\ calls[c].op = "get" /\ calls[c].pc = "data"
             /\ DataResponse(c, s, b))
            => (IsDataResult(calls'[c].result) <=> (s = 200 /\ IsJSON(b)))]_vars

\* A post whose POST answered 201 with a JSON body has returned its data.
C8_Witness ==
    \E c \in Calls :
        /\ calls[c].op = "post" /\ calls[c].pc = "done"
        /\ calls[c].dataStatus = 201
        /\ calls[c].result = Return([context |-> ContextRef, data |-> [data |-> 2]])

\* C8 as stated: post returns {context, data} exactly when the POST answers
\* 200 or 201, and {context, error} for every other status.
C8_AsStated ==
    \A c \in Calls :
        (calls[c].op = "post" /\ calls[c].pc = "done" /\ calls[c].dataStatus > 0)
        => /\ IsDataResult(calls[c].result) <=> calls[c].dataStatus \in {200, 201}
           /\ calls[c].dataStatus \notin {200, 201} => IsErrorResult(calls[c].result)

\* The failures of token resolution, as get and post see them: getToken's
\* own throws, a transport failure of the auth exchange, and the wrapper's
\* refusal of an empty token.
TokenResolutionErrors(op) ==
    {InvalidArgumentApiKey, RequestError, NoTokenError(op)}
        \cup {AuthenticationError(s) : s \in StatusInputs}

\* The failures of building the request, between the resolution of the
\* token and the try block: an unknown base, criteria that cannot be
\* serialised.
PreparationErrors ==
    {TypeError} \cup {ConfigurationError(BaseOrDefault(b)) :
                        b \in {x \in BaseInputs : buildUrlThrows(BaseOrDefault(x))}}

\* C9. Propagation policy of get and post, as amended: a get or post throws
\* only for a missing resource, a failure of token resolution, or a failure
\* of building the request before it is issued (unknown base, criteria that
\* cannot be serialised); once the data request is issued every failure
\* (status, transport, unparsable body) comes back as {context, error}.
C9_PropagationPolicy ==
    \A c \in Calls :
        (calls[c].op \in {"get", "post"} /\ calls[c].pc = "done")
        => /\ calls[c].dataRequests = 1 =>
                 IsDataResult(calls[c].result) \/ IsErrorResult(calls[c].result)
           /\ calls[c].result.kind = "throw" =>
                 /\ calls[c].dataRequests = 0
                 /\ calls[c].result.error \in
                       {InvalidArgumentResource(calls[c].op)}
                          \cup TokenResolutionErrors(calls[c].op)
                          \cup PreparationErrors

\* A post whose data request failed in transport has returned an
\* error-result.
C9_Witness ==
    \E c \in Calls :
        /\ calls[c].op = "post" /\ calls[c].pc = "done"
        /\ calls[c].dataStatus = -1
        /\ calls[c].result = ErrorResult(RequestError)

\* C9 as stated: the only errors get and post throw are the missing
\* resource and the failures of token resolution.
C9_AsStated ==
    \A c \in Calls :
        (calls[c].op \in {"get", "post"} /\ calls[c].pc = "done"
            /\ calls[c].result.kind = "throw")
        => calls[c].result.error \in
              {InvalidArgumentResource(calls[c].op)}
                 \cup TokenResolutionErrors(calls[c].op)

\* C10. Resource precondition: get and post called with an absent or empty
\* resource throw InvalidArgument at once, whatever the other arguments:
\* no token resolution, no request, and the context unchanged.
C10_ResourcePrecondition ==
    [][\A c \in Calls, k \in ApiKeyInputs, o \in OptionsInputs,
          t \in TokenInputs, r \in ResourceInputs :
          (/\ calls[c].pc = "idle" /\ calls'[c].op \in {"get", "post"}
           /\ r \in {Undefined, ""}
           /\ CallGet(c, k, o, t, r) \/ CallPost(c, k, o, t, r))
          => /\ calls'[c].pc = "done"
             /\ calls'[c].result = Throw(InvalidArgumentResource(calls'[c].op))
             /\ calls'[c].tokenFrom = ""
             /\ calls'[c].authPosts = 0
             /\ calls'[c].dataRequests = 0
             /\ calls'[c].counted = 0
             /\ context' = context]_vars

\* A post without a resource has thrown on a context that has no token
\* cache yet, and has not created one.
C10_Witness ==
    \E c \in Calls :
        /\ calls[c].op = "post" /\ calls[c].pc = "done"
        /\ calls[c].result = Throw(InvalidArgumentResource("post"))
        /\ ~context.hasTokensByApiKey

\* C11. apiKey precondition: when getToken is called with no explicit token
\* and an absent or empty apiKey, and the cache lookup (of the property
\* "undefined", or "") yields no entry with more than 30 s left, it throws
\* InvalidArgument, issues no auth POST, and adds or changes no cache entry.
C11_ApiKeyPrecondition ==
    [][\A c \in Calls, k \in KeyInputs, t \in TokenInputs :
          (/\ calls[c].pc = "idle" /\ calls'[c].op = "getToken"
           /\ ~Truthy(t) /\ k \in {Undefined, ""}
           /\ ~HoldsUsable(context, PropertyKey(k), now)
           /\ CallGetToken(c, k, NoOptions, t))
          => /\ calls'[c].pc = "done"
             /\ calls'[c].result = Throw(InvalidArgumentApiKey)
             /\ calls'[c].authPosts = 0
             /\ calls'[c].request = NoRequest
             /\ context'.tokensByApiKey = context.tokensByApiKey]_vars

\* A getToken call without apiKey found the entry of the key "undefined"
\* expired and has thrown; the entry is still the one it found.
C11_Witness ==
    \E c \in Calls :
        /\ calls[c].op = "getToken" /\ calls[c].pc = "done"
        /\ calls[c].result = Throw(InvalidArgumentApiKey)
        /\ calls[c].authPosts = 0
        /\ calls[c].cachedToken # NoCachedToken
        /\ ~CacheUsable(calls[c].cachedToken, calls[c].now)
        /\ context.tokensByApiKey["undefined"] = calls[c].cachedToken

\* C12. URL construction: with root the options' ethosIntegrationUrl when
\* one is given and the configured ETHOS_INTEGRATION_URL otherwise, buildUrl
\* yields root/base/resource for base api (the default) and admin, with /id
\* appended exactly when an id is given; root/base for base auth and
\* graphql, whatever resource and id are; and throws ConfigurationError for
\* every other base.
C12_UrlConstruction ==
    built.out # NoUrl =>
        LET given(v) == v # Undefined /\ v # ""
            root == IF given(built.options.ethosIntegrationUrl)
                    THEN built.options.ethosIntegrationUrl
                    ELSE "https://env"
            base == IF built.base = Undefined THEN "api" ELSE built.base
            resource == IF built.resource = Undefined THEN "undefined"
                        ELSE built.resource
        IN  /\ base \in {"api", "admin"} =>
                  built.out = ReturnUrl(
                      IF given(built.id)
                      THEN root \o "/" \o base \o "/" \o resource \o "/" \o built.id
                      ELSE root \o "/" \o base \o "/" \o resource)
            /\ base \in {"auth", "graphql"} =>
                  built.out = ReturnUrl(root \o "/" \o base)
            /\ base \notin {"api", "admin", "auth", "graphql"} =>
                  built.out = ThrowUrl(ConfigurationError(base))

\* buildUrl has built the URL of an admin resource with an id under the
\* root the options name.
C12_Witness ==
    /\ built.base = "admin" /\ built.resource = "students" /\ built.id = "123"
    /\ built.options.ethosIntegrationUrl = "https://override"
    /\ built.out = ReturnUrl("https://override/admin/students/123")

\* C13. Options template isolation: whatever request options were made
\* before, with whatever headers, and however they were changed since
\* (addAuthorization included), baseOptions is as it was when the module
\* loaded; createNewRequestOptions called without headers returns options
\* whose headers are exactly Accept: application/json and Cache-Control:
\* no-cache; and every call returns a headers object of its own, which is
\* neither baseOptions' nor that of another call.
C13_TemplateIsolation ==
    [][/\ heap'.objects[BaseRef] = heap.objects[BaseRef]
       /\ heap.objects[BaseRef] =
             ("Accept" :> "application/json") @@ ("Cache-Control" :> "no-cache")
       /\ \A i, j \in 1..Len(heap'.returned) :
             /\ heap'.returned[i] # BaseRef
             /\ i # j => heap'.returned[i] # heap'.returned[j]
       /\ CreateNewRequestOptions(NoHeaders) =>
             heap'.objects[heap'.returned[Len(heap'.returned)]] =
                ("Accept" :> "application/json") @@ ("Cache-Control" :> "no-cache")
      ]_vars

\* The first request options got an Authorization header and another
\* Accept; the second, made without headers, has the base headers, and so
\* has baseOptions.
C13_Witness ==
    /\ Len(heap.returned) = 2
    /\ "Authorization" \in DOMAIN heap.objects[heap.returned[1]]
    /\ heap.objects[heap.returned[1]]["Accept"] = "changed"
    /\ heap.objects[heap.returned[2]] = baseOptions.headers
    /\ heap.objects[BaseRef] = baseOptions.headers

\* C14. Redundant authentication under concurrent miss: a getToken call
\* made for an API key while another call's exchange for that key is in
\* flight, and no usable entry exists, issues an auth POST of its own; each
\* exchange that answers 200 stores its own token over whatever entry is
\* there, so the entry left is that of the response processed last; and
\* each call returns the token of its own response.
C14_RedundantAuthentication ==
    [][/\ \A c, d \in Calls, k \in ConcKeys :
            (/\ calls[c].pc = "idle" /\ calls'[c].op = "getToken"
             /\ d # c /\ calls[d].pc = "auth" /\ calls[d].apiKey = k
             /\ ~HoldsUsable(context, k, now)
             /\ CallGetToken(c, k, NoOptions, Undefined))
            => /\ calls'[c].pc = "auth" /\ calls'[c].authPosts = 1
               /\ calls'[d].pc = "auth" /\ calls'[d].authPosts = 1
       /\ \A c \in Calls, b \in {"tokA", "tokB"} :
            (/\ calls[c].pc = "auth" /\ calls[c].op = "getToken"
             /\ AuthResponse(c, 200, b))
            => /\ context'.tokensByApiKey[calls[c].apiKey].token = b
               /\ calls'[c].result = TokenResult(b)
               /\ \A d \in Calls \ {c} : calls'[d] = calls[d]]_vars

\* Two getToken calls for the same key both started while the cache had no
\* entry, so that both exchanges were in flight at once; one returned tokA,
\* the other tokB, and the cache holds tokB, the token written last.
C14_Witness ==
    /\ calls["c1"].op = "getToken" /\ calls["c1"].pc = "done"
    /\ calls["c2"].op = "getToken" /\ calls["c2"].pc = "done"
    /\ calls["c1"].cachedToken = NoCachedToken
    /\ calls["c2"].cachedToken = NoCachedToken
    /\ calls["c1"].authPosts = 1 /\ calls["c2"].authPosts = 1
    /\ calls["c1"].result = TokenResult("tokA")
    /\ calls["c2"].result = TokenResult("tokB")
    /\ context.tokensByApiKey["k1"].token = "tokB"

\* C15. Token lifetime stamp, as amended: on a 200 auth response the entry
\* stored for the API key has expires = t0 + 300000 ms, where t0 is the
\* time getToken read when it was called, before the exchange; at the
\* moment of the cache write the entry is at most 5 minutes from expiry,
\* and exactly 5 minutes only when the exchange took no time.
C15_TokenLifetimeStamp ==
    [][\A c \in Calls, b \in AuthBodies :
          (calls[c].pc = "auth" /\ AuthResponse(c, 200, b))
          => LET entry == context'.tokensByApiKey[calls[c].apiKey]
             IN  /\ entry.token = b
                 /\ entry.expires = calls[c].now + 300000
                 /\ entry.expires - now = 300000 - (now - calls[c].now)
                 /\ entry.expires - now <= 300000]_vars

\* A getToken call read the clock at 0 and its exchange was answered at
\* 30 s: the entry it stored expires at 300 s, 270 s after the write.
C15_Witness ==
    \E c \in Calls :
        /\ calls[c].op = "getToken" /\ calls[c].pc = "done"
        /\ calls[c].authStatus = 200
        /\ calls[c].now = 0 /\ calls[c].handledAt = 30000
        /\ context.tokensByApiKey["k1"].token = calls[c].result.value.token
        /\ context.tokensByApiKey["k1"].expires = 300000

\* C15 as stated: the entry stored on a 200 auth response expires 300000 ms
\* after the time at which the response is handled, for every latency of
\* the exchange.
C15_AsStated ==
    [][\A c \in Calls, b \in AuthBodies :
          (calls[c].pc = "auth" /\ AuthResponse(c, 200, b))
          => context'.tokensByApiKey[calls[c].apiKey].expires = now + 300000]_vars

\* The counters of the context.
Counters(ctx) == <<ctx.ethosGetCount, ctx.ethosPostCount, ctx.ethosGraphQLCount>>

\* The token step of the call in slot c has succeeded: getToken returned,
\* by an explicit token, a cache hit or a 200 auth exchange.
TokenStepSucceeded(c) ==
    \/ calls[c].tokenFrom \in {"explicit", "cache"}
    \/ calls[c].tokenFrom = "auth" /\ calls[c].authStatus = 200

\* C16. Counter accounting, as amended: when the token step of a get, post
\* or graphql call has yielded a non-empty token and the request can be
\* built (for get and post: a base buildUrl knows, criteria that can be
\* serialised), the wrapper's own counter goes up by exactly one and the
\* other two stay as they are, and the answer to the data request, whatever
\* its status, changes no counter; when the token is empty or the request
\* cannot be built the wrapper throws and no counter changes.  The token
\* step itself changes no counter.
C16_CounterAccounting ==
    [][/\ \A c \in Calls, base \in BaseInputs, id \in IdInputs,
             criteria \in CriteriaInputs :
            (calls[c].pc = "resolved" /\ Continue(c, base, id, criteria))
            => LET op == calls[c].op
                   buildable ==
                       \/ op = "graphql"
                       \/ /\ criteria # "cyclic"
                          /\ base \in {Undefined, "api", "admin", "auth", "graphql"}
               IN  IF calls[c].tokenToUse \notin {Undefined, ""} /\ buildable
                   THEN /\ calls'[c].pc = "data" /\ calls'[c].counted = 1
                        /\ CounterOf(context', op) = CounterOf(context, op) + 1
                        /\ \A o \in {"get", "post", "graphql"} \ {op} :
                              CounterOf(context', o) = CounterOf(context, o)
                   ELSE /\ calls'[c].pc = "done" /\ calls'[c].counted = 0
                        /\ calls'[c].result.kind = "throw"
                        /\ Counters(context') = Counters(context)
       /\ \A c \in Calls :
            (calls[c].pc = "data" /\ calls'[c] # calls[c])
            => /\ calls'[c].counted = 1
               /\ Counters(context') = Counters(context)
       /\ \A c \in Calls :
            (calls[c].pc \in {"idle", "auth"} /\ calls'[c] # calls[c])
            => /\ calls'[c].counted = 0
               /\ Counters(context') = Counters(context)]_vars

\* The second post on the context obtained its token by an exchange and got
\* 404 for its data: ethosPostCount went from 1 to 2, the others are 0.
C16_Witness ==
    \E c \in Calls :
        /\ calls[c].op = "post" /\ calls[c].pc = "done"
        /\ calls[c].tokenFrom = "auth" /\ calls[c].dataStatus = 404
        /\ calls[c].countBefore = 1 /\ calls[c].counted = 1
        /\ Counters(context) = <<0, 2, 0>>

\* C16 as stated: every get, post or graphql call whose token step
\* succeeded, with any token body, has incremented its counter by one.
C16_AsStated ==
    \A c \in Calls :
        (/\ calls[c].op \in {"get", "post", "graphql"} /\ calls[c].pc = "done"
         /\ TokenStepSucceeded(c))
        => /\ calls[c].counted = 1
           /\ CounterOf(context, calls[c].op) = calls[c].countBefore + 1

\* Slots c and d hold two calls of get that ran concurrently: both were
\* made when ethosGetCount had the same value, so neither had incremented
\* it when the other was called.
ConcurrentGets(c, d) ==
    /\ c # d
    /\ calls[c].op = "get" /\ calls[d].op = "get"
    /\ calls[c].countBefore = calls[d].countBefore

\* C17. Counter updates, as amended: the counter is read and written in one
\* run-to-await segment of the wrapper, so no increment is lost: when
\* calls of the same wrapper run concurrently against one context, the
\* counter is its initial value plus the number of those calls that have
\* passed the token step and incremented it, in every interleaving.
C17_NoLostUpdate ==
    \A c, d \in Calls :
        ConcurrentGets(c, d)
        => context.ethosGetCount =
              calls[c].countBefore + calls[c].counted + calls[d].counted

\* Two gets were made while the cache was empty, exchanged the key at the
\* same time and then both incremented ethosGetCount, which went from 0 to 2.
C17_Witness ==
    /\ ConcurrentGets("c1", "c2")
    /\ calls["c1"].tokenFrom = "auth" /\ calls["c2"].tokenFrom = "auth"
    /\ calls["c1"].cachedToken = NoCachedToken
    /\ calls["c2"].cachedToken = NoCachedToken
    /\ calls["c1"].counted = 1 /\ calls["c2"].counted = 1
    /\ calls["c1"].countBefore = 0
    /\ context.ethosGetCount = 2

\* C17 as stated: after N concurrent calls of a wrapper that have all
\* passed the token step, the counter is smaller than its initial value
\* plus N: an increment has been lost.
C17_AsStated ==
    \A c, d \in Calls :
        (ConcurrentGets(c, d) /\ calls[c].counted = 1 /\ calls[d].counted = 1)
        => context.ethosGetCount < calls[c].countBefore + 2

\* C18. Cache growth without eviction: in every step of every interleaving
\* of calls on one context, no key leaves tokensByApiKey; its keys are API
\* keys that were used, each with one entry; and a key is added, or the
\* entry of a key is changed, only by a call whose auth exchange for that
\* very key is answered 200 in that step, which stores the answer's token.
C18_CacheGrowth ==
    [][LET old == context.tokensByApiKey
           new == context'.tokensByApiKey
       IN  /\ DOMAIN old \subseteq DOMAIN new
           /\ DOMAIN new \subseteq CacheKeys
           /\ \A k \in DOMAIN new :
                 (k \notin DOMAIN old \/ new[k] # old[k])
                 => \E c \in Calls :
                       /\ calls[c].pc = "auth" /\ calls[c].apiKey = k
                       /\ calls'[c].pc = "done" /\ calls'[c].authStatus = 200
                       /\ calls'[c].result = TokenResult(new[k].token)]_vars

\* The cache holds entries for both keys, and a call that found the entry of
\* k1 expired has put another token in its place.
C18_Witness ==
    \E c \in Calls :
        /\ DOMAIN context.tokensByApiKey = {"k1", "k2"}
        /\ calls[c].pc = "done" /\ calls[c].authStatus = 200
        /\ calls[c].cachedToken.token = "tokA"
        /\ calls[c].result = TokenResult("tokB")
        /\ context.tokensByApiKey["k1"].token = "tokB"
        /\ context.tokensByApiKey["k2"].token = "tokA"

\* C19. Base headers, as amended: the auth POST of getToken always carries
\* Accept: application/json and Cache-Control: no-cache; every data request
\* of get, post and graphql carries both headers too, with the base value
\* unless the caller's headers name that header, in which case it carries
\* the caller's value.
C19_BaseHeaders ==
    [][\A c \in Calls :
          LET sent == calls'[c].request.options.headers
              own == calls[c].options.headers
          IN  /\ (calls[c].pc = "idle" /\ calls'[c].pc = "auth")
                 => /\ sent["Accept"] = "application/json"
                    /\ sent["Cache-Control"] = "no-cache"
              /\ (calls[c].pc = "resolved" /\ calls'[c].pc = "data")
                 => /\ sent["Accept"] =
                          IF "Accept" \in DOMAIN own THEN own["Accept"]
                          ELSE "application/json"
                    /\ sent["Cache-Control"] =
                          IF "Cache-Control" \in DOMAIN own THEN own["Cache-Control"]
                          ELSE "no-cache"]_vars

\* A post made with headers of the caller that name Accept has sent its data
\* request with the caller's Accept and the base Cache-Control.
C19_Witness ==
    \E c \in Calls :
        /\ calls[c].op = "post" /\ calls[c].pc = "data"
        /\ calls[c].request.options.headers["Accept"] = "text/csv"
        /\ calls[c].request.options.headers["Cache-Control"] = "no-cache"
        /\ calls[c].request.options.headers["X-Trace"] = "1"

\* C19 as stated: every request in flight carries Accept: application/json
\* and Cache-Control: no-cache, whatever headers the caller passed.
C19_AsStated ==
    \A c \in Calls :
        calls[c].request # NoRequest
        => /\ calls[c].request.options.headers["Accept"] = "application/json"
           /\ calls[c].request.options.headers["Cache-Control"] = "no-cache"

\* C20. Stored expiry, as amended: each 200 auth response overwrites the
\* entry of its API key with the expiry of its own call, the time the call
\* read at its start plus 300000 ms.  That is later than the expiry it
\* replaces when the entry is still the one the call found at its start;
\* it is earlier only when another exchange, started later, stored its
\* entry while this call was in flight.
C20_StoredExpiry ==
    [][\A c \in Calls, b \in {"tokA", "tokB"} :
          (calls[c].pc = "auth" /\ AuthResponse(c, 200, b))
          => LET k == calls[c].apiKey
                 old == context.tokensByApiKey
                 new == context'.tokensByApiKey
             IN  /\ new[k] = [expires |-> calls[c].now + 300000, token |-> b]
                 /\ (k \in DOMAIN old /\ old[k] = calls[c].cachedToken)
                       => new[k].expires > old[k].expires
                 /\ (k \in DOMAIN old /\ new[k].expires < old[k].expires)
                       => /\ old[k] # calls[c].cachedToken
                          /\ \E t \in ClockValues :
                                /\ t > calls[c].now /\ t <= now
                                /\ old[k].expires = t + 300000]_vars

\* Two getToken calls for k1 were in flight at once: the one made at 30 s was
\* answered first and stored tokB until 330 s, then the one made at 0 was
\* answered and put tokA until 300 s in its place.
C20_Witness ==
    /\ calls["c1"].op = "getToken" /\ calls["c1"].pc = "done"
    /\ calls["c2"].op = "getToken" /\ calls["c2"].pc = "done"
    /\ calls["c1"].now = 0 /\ calls["c2"].now = 30000
    /\ calls["c1"].cachedToken = NoCachedToken
    /\ calls["c2"].cachedToken = NoCachedToken
    /\ calls["c1"].result = TokenResult("tokA")
    /\ calls["c2"].result = TokenResult("tokB")
    /\ context.tokensByApiKey["k1"] = [expires |-> 300000, token |-> "tokA"]

\* C20 as stated: each overwrite of the entry of an API key stores an expiry
\* greater than or equal to the one it replaces.
C20_AsStated ==
    [][\A k \in DOMAIN context.tokensByApiKey :
          context'.tokensByApiKey[k].expires >= context.tokensByApiKey[k].expires
      ]_vars

====
